---- MODULE Spec2Model ----
(***************************************************************************)
(* Recovery Operations orchestrator of AI-Disaster-Guardian                *)
(* (views/RecoveryOps.tsx, services/geminiService.ts, types.ts).           *)
(*                                                                         *)
(* The component keeps its state in React state cells.  Every handler runs *)
(* against the cells of the last committed render and its setState calls   *)
(* are committed together, so one handler invocation is one action.  The   *)
(* two awaits (planner, interpreter) split their handlers in two actions.  *)
(*                                                                         *)
(* Task objects live in a heap: `[...tasks]` copies the array, not the     *)
(* objects, so `newTasks[i].status = ...` writes through to every array    *)
(* that holds the same object, among them the array captured by the        *)
(* closure of a pending voice command.                                     *)
(***************************************************************************)
EXTENDS Integers, Sequences, FiniteSets, TLC

\* ------------------------------------------------------------------ bounds
MaxPlanLen == 2      \* longest plan the planner returns
MaxCmdLen == 2       \* longest queue the interpreter returns
MaxSessions == 2     \* speech-recognition sessions alive at once
MaxLog == 9          \* log lines in one behaviour
MaxAlerts == 1       \* alert callbacks of the early-warning view pending at once

\* The planner's fallback plan has three tasks (geminiService.ts).
DefaultPlanLen == 3

Max(a, b) == IF a >= b THEN a ELSE b
MaxLen == Max(Max(MaxPlanLen, DefaultPlanLen), MaxCmdLen)

\* --------------------------------------------------------------- data types
\* types.ts: AgentStatus
AgentStatus ==
    {"IDLE", "ANALYZING", "PLANNING", "EXECUTING", "PAUSED",
     "AWAITING_APPROVAL", "COMPLETED"}

\* types.ts: RecoveryTask.status
TaskStatus == {"pending", "in-progress", "completed"}

\* A RecoveryTask.  id, title, description, assignedAgent and estimatedTime
\* are written once and travel together; `title` stands for all of them.
Titles == 1..MaxLen
RecoveryTask == [title : Titles, status : TaskStatus]

Task(t, s) == [title |-> t, status |-> s]

ObjIds == 1..((MaxSessions + 1) * MaxLen)
Free == [title |-> 0, status |-> "free"]

Sessions == 1..MaxSessions

\* types.ts: DisasterType.  One type of the view's initial selection and one
\* outside it stand for the eight.
DisasterType == {"Earthquake", "Volcano"}

\* types.ts: RiskProfile; riskScore is 0-100, one value on each side of the
\* initial threshold.
RiskProfile == [dominantThreat : DisasterType, riskScore : {40, 80}]

\* null
Null == [null |-> TRUE]

\* Values of the threshold slider and of the contact inputs.
Thresholds == {30, 50}
Phones == {"", "5550100"}
Emails == {"", "a@example.org"}

VARIABLES
    tasks,            \* useState<RecoveryTask[]>: array of object references
    heap,             \* the task objects the arrays refer to
    status,           \* useState<AgentStatus>
    activeTaskIndex,  \* useState<number>, 0-based, -1 = none
    logs,             \* useState<string[]>
    isListening,      \* useState<boolean>
    isProcessingVoice,\* useState<boolean>
    sessions,         \* SpeechRecognition objects and their onresult calls
    planCalls,        \* generateRecoveryPlan calls awaiting their result
    mounted,          \* FALSE once a render has thrown and React unmounted
    timers,           \* setTimeout callbacks of the effect, not yet fired
    \* views/EarlyWarning.tsx
    loading,          \* useState(false): a scan is running
    riskData,         \* useState<RiskProfile | null>
    contactInfo,      \* useState({countryCode, phone, email})
    alertConfig,      \* useState({threshold, types})
    monitoring,       \* useState(false)
    lastAlert,        \* useState<string | null>
    actionLinks,      \* useState<{sms, email} | null>
    alerts            \* callbacks scheduled by handleMonitorToggle

\* The cells of RecoveryOps and those of EarlyWarning.
opsVars == <<tasks, heap, status, activeTaskIndex, logs, isListening,
             isProcessingVoice, sessions, planCalls, mounted, timers>>

warningVars == <<loading, riskData, contactInfo, alertConfig, monitoring,
                 lastAlert, actionLinks, alerts>>

vars == <<tasks, heap, status, activeTaskIndex, logs, isListening,
          isProcessingVoice, sessions, planCalls, mounted, timers,
          loading, riskData, contactInfo, alertConfig, monitoring,
          lastAlert, actionLinks, alerts>>

\* ------------------------------------------------------------------ helpers
Range(s) == {s[i] : i \in 1..Len(s)}

\* The contents of an array: the objects it refers to, read now.
Deref(h, arr) == [i \in 1..Len(arr) |-> h[arr[i]]]

Queue == Deref(heap, tasks)

\* newTasks[i].status = s  (i is 0-based, as in the code)
SetStatus(h, arr, i, s) == [h EXCEPT ![arr[i + 1]].status = s]

\* Objects some array still refers to.
Live(ts, ss) == Range(ts) \cup UNION {Range(ss[s].fn) : s \in Sessions}

Collect(h, ts, ss) ==
    [o \in ObjIds |-> IF o \in Live(ts, ss) THEN h[o] ELSE Free]

\* n fresh object ids, none of them in `used`.
FreshIds(n, used) ==
    LET avail == ObjIds \ used
        pick == {x \in avail : Cardinality({y \in avail : y < x}) < n}
    IN  [i \in 1..n |->
            CHOOSE x \in pick : Cardinality({y \in pick : y < x}) = i - 1]

\* The heap after `content` (a sequence of task records) has been
\* materialised as new objects at ids `ids`.
Store(h, ids, content) ==
    [o \in ObjIds |->
        IF \E i \in 1..Len(ids) : ids[i] = o
        THEN content[CHOOSE i \in 1..Len(ids) : ids[i] = o]
        ELSE h[o]]

\* Log lines.  `arg` is the interpolated part of the template string.
Entry(cat, msg, arg) == [cat |-> cat, msg |-> msg, arg |-> arg]

NoSession == [rec |-> "off", call |-> FALSE, fn |-> <<>>, given |-> <<>>]

\* The approval modal's render reads tasks[activeTaskIndex].assignedAgent.
RenderThrows(st, idx, ts) ==
    st = "AWAITING_APPROVAL" /\ idx # -1 /\ idx >= Len(ts)

\* TimerArmed with COMPLETED taken for a running state.
TimerArmedWhenCompleted ==
    status \in {"EXECUTING", "COMPLETED"} /\ activeTaskIndex < Len(tasks)

\* The effect's condition for arming the 3 s timer.
TimerArmed == status = "EXECUTING" /\ activeTaskIndex < Len(tasks)

\* SyncTimer without `return () => clearTimeout(timer)`: a timer armed by an
\* earlier render stays pending when the effect runs again.
SyncTimerNoCleanup(pending) ==
    timers' = IF <<status', activeTaskIndex', tasks'>>
                   = <<status, activeTaskIndex, tasks>>
              THEN pending
              ELSE pending \cup
                   (IF mounted' /\ TimerArmed'
                    THEN {[idx |-> activeTaskIndex', arr |-> tasks']}
                    ELSE {})

\* useEffect(..., [status, activeTaskIndex, tasks]).  When a commit changes
\* a dependency the cleanup of the previous run clears its timer, then the
\* effect arms a new one if its condition holds; the callback closes over
\* the `tasks` and `activeTaskIndex` of that render.  `pending` are the
\* timers that have not fired before this commit.  A copied array with the
\* same objects re-arms a timer with the same closure contents.
SyncTimer(pending) ==
    timers' = IF <<status', activeTaskIndex', tasks'>>
                   = <<status, activeTaskIndex, tasks>>
              THEN pending
              ELSE IF mounted' /\ TimerArmed'
                   THEN {[idx |-> activeTaskIndex', arr |-> tasks']}
                   ELSE {}

\* Every commit is followed by a render; a render that throws unmounts the
\* tree (App.tsx puts no error boundary around the view).  Effects run after
\* the render.
Commit ==
    /\ mounted' = ~RenderThrows(status', activeTaskIndex', tasks')
    /\ SyncTimer(timers)

Init ==
    /\ tasks = <<>>
    /\ heap = [o \in ObjIds |-> Free]
    /\ status = "IDLE"
    /\ activeTaskIndex = -1
    /\ logs = <<>>
    /\ isListening = FALSE
    /\ isProcessingVoice = FALSE
    /\ sessions = [s \in Sessions |-> NoSession]
    /\ planCalls = 0
    /\ mounted = TRUE
    /\ timers = {}
    /\ loading = FALSE
    /\ riskData = Null
    /\ contactInfo = [phone |-> "", email |-> ""]
    /\ alertConfig = [threshold |-> 50, types |-> {"Earthquake"}]
    /\ monitoring = FALSE
    /\ lastAlert = Null
    /\ actionLinks = Null
    /\ alerts = {}

\* ------------------------------------------------------- plan generation
\* GeneratePlanEnabled of a button that is never disabled.
GeneratePlanEnabledAlways == TRUE

\* disabled={status !== IDLE && status !== COMPLETED}
GeneratePlanEnabled == status \in {"IDLE", "COMPLETED"}

\* GeneratePlan with setLogs([...]) in place of the functional update: the
\* log starts over with the two lines of this call.
GeneratePlanFreshLog ==
    /\ mounted
    /\ GeneratePlanEnabled
    /\ status' = "PLANNING"
    /\ logs' = <<Entry("AI", "Analyzing impact", 0),
                 Entry("AI", "Generating resource allocation strategy", 0)>>
    /\ planCalls' = planCalls + 1
    /\ UNCHANGED <<tasks, heap, activeTaskIndex, isListening,
                   isProcessingVoice, sessions>>
    /\ Commit

\* handleGeneratePlan up to the await.
GeneratePlan ==
    /\ mounted
    /\ GeneratePlanEnabled
    /\ status' = "PLANNING"
    /\ logs' = logs \o <<Entry("AI", "Analyzing impact", 0),
                         Entry("AI", "Generating resource allocation strategy", 0)>>
    /\ planCalls' = planCalls + 1
    /\ UNCHANGED <<tasks, heap, activeTaskIndex, isListening,
                   isProcessingVoice, sessions>>
    /\ Commit

\* generateRecoveryPlan: tasks.map(t => ({...t, status: 'pending'}))
PlannerTasks(n) == [i \in 1..n |-> Task(i, "pending")]

\* DefaultPlan of a catch branch that returns no task at all.
DefaultPlanEmpty == PlannerTasks(0)

\* generateRecoveryPlan: the catch branch returns the three default tasks.
DefaultPlan == PlannerTasks(DefaultPlanLen)

\* What generateRecoveryPlan can resolve to.
PlannerResults == {PlannerTasks(n) : n \in 0..MaxPlanLen} \cup {DefaultPlan}

\* ApplyPlan without setActiveTaskIndex(-1).
ApplyPlanKeepsIndex(plan) ==
    LET ids == FreshIds(Len(plan), Live(<<>>, sessions))
    IN  /\ tasks' = ids
        /\ heap' = Collect(Store(heap, ids, plan), ids, sessions)
        /\ logs' = logs \o <<Entry("AI", "Plan generated", Len(plan))>>
        /\ status' = "IDLE"
        /\ activeTaskIndex' = activeTaskIndex

\* setTasks(plan); setStatus(IDLE); setActiveTaskIndex(-1)
ApplyPlan(plan) ==
    LET ids == FreshIds(Len(plan), Live(<<>>, sessions))
    IN  /\ tasks' = ids
        /\ heap' = Collect(Store(heap, ids, plan), ids, sessions)
        /\ logs' = logs \o <<Entry("AI", "Plan generated", Len(plan))>>
        /\ status' = "IDLE"
        /\ activeTaskIndex' = -1

\* How a generateRecoveryPlan call ends: the try branch returns the model's
\* tasks, the catch branch writes to the console and returns DefaultPlan.
PlannerOutcomes ==
    {[kind |-> "planned", plan |-> PlannerTasks(n)] : n \in 0..MaxPlanLen}
    \cup {[kind |-> "failed", plan |-> DefaultPlan]}

\* handleGeneratePlan after the await, the call having ended as `out`.
PlanReadyWith(out) ==
    /\ mounted
    /\ planCalls > 0
    /\ out.plan \in PlannerResults
    /\ ApplyPlan(out.plan)
    /\ planCalls' = planCalls - 1
    /\ UNCHANGED <<isListening, isProcessingVoice, sessions>>
    /\ Commit

\* handleGeneratePlan after the await.
PlanReady == \E out \in PlannerOutcomes : PlanReadyWith(out)

\* ------------------------------------------------------------- execution
\* disabled={tasks.length === 0 || status === COMPLETED ||
\*           status === AWAITING_APPROVAL}
ToggleEnabled ==
    ~(Len(tasks) = 0 \/ status = "COMPLETED" \/ status = "AWAITING_APPROVAL")

\* StartFirst without the [STARTED] line of the first task.
StartFirstUnlogged ==
    /\ status' = "EXECUTING"
    /\ activeTaskIndex' = 0
    /\ heap' = SetStatus(heap, tasks, 0, "in-progress")
    /\ tasks' = tasks
    /\ logs' = logs \o <<Entry("SYSTEM", "Operation Commenced.", 0)>>

\* toggleExecution, branch `activeTaskIndex === -1`: starting fresh.
StartFirst ==
    /\ status' = "EXECUTING"
    /\ activeTaskIndex' = 0
    /\ heap' = SetStatus(heap, tasks, 0, "in-progress")
    /\ tasks' = tasks
    /\ logs' = logs \o <<Entry("SYSTEM", "Operation Commenced.", 0),
                         Entry("STARTED", "STARTED", heap[tasks[1]].title)>>

\* toggleExecution, else branch: resuming.
Resume ==
    /\ status' = "EXECUTING"
    /\ logs' = logs \o <<Entry("SYSTEM", "Operation Resumed.", 0)>>
    /\ UNCHANGED <<tasks, heap, activeTaskIndex>>

\* toggleExecution, branch `status === EXECUTING`.
Pause ==
    /\ status' = "PAUSED"
    /\ logs' = logs \o <<Entry("SYSTEM", "Operation Paused by Commander.", 0)>>
    /\ UNCHANGED <<tasks, heap, activeTaskIndex>>

\* ToggleHandler without the `activeTaskIndex === -1` test: every resume
\* starts over at the first task.
ToggleHandlerRestarts ==
    IF status \in {"IDLE", "PAUSED"}
    THEN IF Len(tasks) = 0
         THEN UNCHANGED <<tasks, heap, status, activeTaskIndex, logs>>
         ELSE StartFirst
    ELSE IF status = "EXECUTING"
         THEN Pause
         ELSE UNCHANGED <<tasks, heap, status, activeTaskIndex, logs>>

\* toggleExecution (the handler body).
ToggleHandler ==
    IF status \in {"IDLE", "PAUSED"}
    THEN IF Len(tasks) = 0
         THEN UNCHANGED <<tasks, heap, status, activeTaskIndex, logs>>
         ELSE IF activeTaskIndex = -1 THEN StartFirst ELSE Resume
    ELSE IF status = "EXECUTING"
         THEN Pause
         ELSE UNCHANGED <<tasks, heap, status, activeTaskIndex, logs>>

\* ToggleExecution with neither the disabled button nor the
\* `tasks.length === 0` return: setStatus and setActiveTaskIndex run before
\* newTasks[0] is dereferenced.
ToggleExecutionUnguarded ==
    /\ mounted
    /\ IF Len(tasks) = 0
       THEN IF status \in {"IDLE", "PAUSED"}
            THEN /\ status' = "EXECUTING"
                 /\ activeTaskIndex' = 0
                 /\ UNCHANGED <<tasks, heap, logs>>
            ELSE UNCHANGED <<tasks, heap, status, activeTaskIndex, logs>>
       ELSE IF ToggleEnabled
            THEN ToggleHandler
            ELSE UNCHANGED <<tasks, heap, status, activeTaskIndex, logs>>
    /\ UNCHANGED <<isListening, isProcessingVoice, sessions, planCalls>>
    /\ Commit

\* start() / resume() / pause(): the click on the play/pause button.  A
\* disabled button delivers no click.
ToggleExecution ==
    /\ mounted
    /\ IF ToggleEnabled
       THEN ToggleHandler
       ELSE UNCHANGED <<tasks, heap, status, activeTaskIndex, logs>>
    /\ UNCHANGED <<isListening, isProcessingVoice, sessions, planCalls>>
    /\ Commit

\* The timer callback as it was before the approval gate: it completes the
\* active task itself.
TaskTimerAutoCompletes ==
    /\ mounted
    /\ \E t \in timers :
        /\ t.idx >= 0
        /\ status' = "AWAITING_APPROVAL"
        /\ heap' = SetStatus(heap, t.arr, t.idx, "completed")
        /\ logs' = logs \o <<Entry("SYSTEM", "pending Commander approval.",
                                    heap[t.arr[t.idx + 1]].title)>>
        /\ UNCHANGED <<tasks, activeTaskIndex, isListening,
                       isProcessingVoice, sessions, planCalls>>
        /\ mounted' = ~RenderThrows(status', activeTaskIndex', tasks')
        /\ SyncTimer(timers \ {t})

\* The timer callback, run for a pending timer t.  It reads the `tasks` and
\* `activeTaskIndex` of its closure.  With activeTaskIndex = -1 the template
\* string throws on tasks[-1].title after setStatus has run.
TaskTimerElapsed ==
    /\ mounted
    /\ \E t \in timers :
        /\ status' = "AWAITING_APPROVAL"
        /\ logs' = IF t.idx >= 0
                   THEN logs \o <<Entry("SYSTEM", "pending Commander approval.",
                                        heap[t.arr[t.idx + 1]].title)>>
                   ELSE logs
        /\ UNCHANGED <<tasks, heap, activeTaskIndex, isListening,
                       isProcessingVoice, sessions, planCalls>>
        /\ mounted' = ~RenderThrows(status', activeTaskIndex', tasks')
        /\ SyncTimer(timers \ {t})

\* ApprovalModalShown without the test of the status: the modal, and its
\* "Confirm & Proceed" button, on screen whenever a task is active.
ApprovalModalAlways == activeTaskIndex # -1

\* {status === AWAITING_APPROVAL && activeTaskIndex !== -1 && (modal)}
ApprovalModalShown == status = "AWAITING_APPROVAL" /\ activeTaskIndex # -1

\* ApproveTask with the bounds test off by one: the last task is never
\* started.
ApproveTaskSkipsLast ==
    LET done == SetStatus(heap, tasks, activeTaskIndex, "completed")
        nextIndex == activeTaskIndex + 1
        completedLine ==
            Entry("COMPLETED", "confirmed by Commander.",
                  heap[tasks[activeTaskIndex + 1]].title)
    IN  IF nextIndex + 1 < Len(tasks)
        THEN /\ heap' = SetStatus(done, tasks, nextIndex, "in-progress")
             /\ tasks' = tasks
             /\ activeTaskIndex' = nextIndex
             /\ status' = "EXECUTING"
             /\ logs' = logs \o <<completedLine,
                                  Entry("STARTED", "STARTED",
                                        heap[tasks[nextIndex + 1]].title)>>
        ELSE /\ heap' = done
             /\ tasks' = tasks
             /\ activeTaskIndex' = activeTaskIndex
             /\ status' = "COMPLETED"
             /\ logs' = logs \o <<completedLine,
                                  Entry("SYSTEM",
                                        "All recovery operations completed successfully.", 0)>>

\* handleApproveTask past its `activeTaskIndex === -1` return.
ApproveTask ==
    LET done == SetStatus(heap, tasks, activeTaskIndex, "completed")
        nextIndex == activeTaskIndex + 1
        completedLine ==
            Entry("COMPLETED", "confirmed by Commander.",
                  heap[tasks[activeTaskIndex + 1]].title)
    IN  IF nextIndex < Len(tasks)
        THEN /\ heap' = SetStatus(done, tasks, nextIndex, "in-progress")
             /\ tasks' = tasks
             /\ activeTaskIndex' = nextIndex
             /\ status' = "EXECUTING"
             /\ logs' = logs \o <<completedLine,
                                  Entry("STARTED", "STARTED",
                                        heap[tasks[nextIndex + 1]].title)>>
        ELSE /\ heap' = done
             /\ tasks' = tasks
             /\ activeTaskIndex' = activeTaskIndex
             /\ status' = "COMPLETED"
             /\ logs' = logs \o <<completedLine,
                                  Entry("SYSTEM",
                                        "All recovery operations completed successfully.", 0)>>

\* approve(): the click on "Confirm & Proceed".  The button exists only in
\* the modal; with activeTaskIndex past the end of the queue the handler
\* throws on newTasks[activeTaskIndex].status before any setState call.
Approve ==
    /\ mounted
    /\ IF ApprovalModalShown /\ activeTaskIndex # -1
            /\ activeTaskIndex < Len(tasks)
       THEN ApproveTask
       ELSE UNCHANGED <<tasks, heap, status, activeTaskIndex, logs>>
    /\ UNCHANGED <<isListening, isProcessingVoice, sessions, planCalls>>
    /\ Commit

\* PauseForReview that also drops the active task: setActiveTaskIndex(-1).
PauseForReviewDropsTask ==
    /\ mounted
    /\ ApprovalModalShown
    /\ status' = "PAUSED"
    /\ activeTaskIndex' = -1
    /\ UNCHANGED <<tasks, heap, logs, isListening,
                   isProcessingVoice, sessions, planCalls>>
    /\ Commit

\* The click on "Pause / Review": onClick={() => setStatus(PAUSED)}.
PauseForReview ==
    /\ mounted
    /\ ApprovalModalShown
    /\ status' = "PAUSED"
    /\ UNCHANGED <<tasks, heap, activeTaskIndex, logs, isListening,
                   isProcessingVoice, sessions, planCalls>>
    /\ Commit

\* ---------------------------------------------------------- voice commands
\* A session is one SpeechRecognition object made by handleVoiceCommand:
\*   rec   "off" | "starting" (start() called) | "listening" (onstart fired)
\*         | "ending" (onresult or onerror fired, onend still to come)
\*   call  processVoiceCommand is awaiting the model
\*   fn    the `tasks` array the handlers of this object closed over
\*   given the task list serialised into the prompt (JSON.stringify)
\* disabled={isListening || isProcessingVoice}
VoiceEnabled == ~(isListening \/ isProcessingVoice)

SlotFree(s) == sessions[s].rec = "off" /\ ~sessions[s].call

\* handleVoiceCommand: new SpeechRecognition(), handlers installed,
\* recognition.start().  No state cell is written here.
HandleVoiceCommand ==
    /\ mounted
    /\ VoiceEnabled
    /\ \E s \in Sessions :
        /\ SlotFree(s)
        /\ \A r \in Sessions : r < s => ~SlotFree(r)
        /\ sessions' = [sessions EXCEPT ![s] =
                          [rec |-> "starting", call |-> FALSE,
                           fn |-> tasks, given |-> <<>>]]
    /\ UNCHANGED <<tasks, heap, status, activeTaskIndex, logs, isListening,
                   isProcessingVoice, planCalls>>
    /\ Commit

\* recognition.onstart
OnStart(s) ==
    /\ mounted
    /\ sessions[s].rec = "starting"
    /\ sessions' = [sessions EXCEPT ![s].rec = "listening"]
    /\ isListening' = TRUE
    /\ logs' = logs \o <<Entry("COMMS", "Listening for voice command...", 0)>>
    /\ UNCHANGED <<tasks, heap, status, activeTaskIndex, isProcessingVoice,
                   planCalls>>
    /\ Commit

\* recognition.onerror
OnError(s) ==
    /\ mounted
    /\ sessions[s].rec = "listening"
    /\ sessions' = [sessions EXCEPT ![s].rec = "ending", ![s].fn = <<>>]
    /\ heap' = Collect(heap, tasks, sessions')
    /\ isListening' = FALSE
    /\ logs' = logs \o <<Entry("COMMS", "Voice signal lost.", 0)>>
    /\ UNCHANGED <<tasks, status, activeTaskIndex, isProcessingVoice, planCalls>>
    /\ Commit

\* recognition.onend
OnEnd(s) ==
    /\ mounted
    /\ sessions[s].rec = "ending"
    /\ sessions' = [sessions EXCEPT ![s].rec = "off"]
    /\ isListening' = FALSE
    /\ UNCHANGED <<tasks, heap, status, activeTaskIndex, logs,
                   isProcessingVoice, planCalls>>
    /\ Commit

\* recognition.onresult up to the await: processVoiceCommand(transcript,
\* tasks) is entered with the array of the closure, and serialises it into
\* the prompt before it suspends.
OnResult(s) ==
    /\ mounted
    /\ sessions[s].rec = "listening"
    /\ sessions' = [sessions EXCEPT ![s].rec = "ending", ![s].call = TRUE,
                                    ![s].given = Deref(heap, sessions[s].fn)]
    /\ isProcessingVoice' = TRUE
    /\ logs' = logs \o <<Entry("USER VOICE", "transcript", 0),
                         Entry("AI", "Analyzing intent...", 0)>>
    /\ UNCHANGED <<tasks, heap, status, activeTaskIndex, isListening, planCalls>>
    /\ Commit

\* Queues the model can put in result.updatedTasks.
InterpreterQueues ==
    UNION {{[i \in 1..n |-> Task(i, st[i])] : st \in [1..n -> TaskStatus]} :
              n \in 0..MaxCmdLen}

\* processVoiceCommand resolves to {updatedTasks, reply}:
\*   "updated"  result.updatedTasks is present, reply is the model's
\*   "missing"  result.updatedTasks is absent: currentTasks, default reply
\*   "failed"   the catch branch: currentTasks, "Signal interference"
InterpreterOutcomes ==
    {[kind |-> "updated", queue |-> q, reply |-> "model reply"] : q \in InterpreterQueues}
    \cup {[kind |-> "missing", queue |-> <<>>, reply |-> "Command acknowledged."],
          [kind |-> "failed", queue |-> <<>>,
           reply |-> "Signal interference. Command not processed."]}

\* ApplyCommandResult that keeps a task completed once it is: the returned
\* queue is merged into the old one by position.
ApplyCommandResultKeepsDone(s, out) ==
    LET rest == [sessions EXCEPT ![s].call = FALSE, ![s].fn = <<>>,
                                 ![s].given = <<>>]
        merged == [i \in 1..Len(out.queue) |->
                     IF i <= Len(tasks) /\ Queue[i].status = "completed"
                     THEN Task(out.queue[i].title, "completed")
                     ELSE out.queue[i]]
        ids == IF out.kind = "updated"
               THEN FreshIds(Len(out.queue), Live(<<>>, rest))
               ELSE sessions[s].fn
        h == IF out.kind = "updated" THEN Store(heap, ids, merged) ELSE heap
    IN  /\ tasks' = ids
        /\ sessions' = rest
        /\ heap' = Collect(h, ids, rest)
        /\ logs' = logs \o <<Entry("AI REASONING", out.reply, 0)>>
        /\ isProcessingVoice' = FALSE

\* recognition.onresult after the await: setTasks(updatedTasks), the reply
\* line, setIsProcessingVoice(false).
ApplyCommandResult(s, out) ==
    LET rest == [sessions EXCEPT ![s].call = FALSE, ![s].fn = <<>>,
                                 ![s].given = <<>>]
        ids == IF out.kind = "updated"
               THEN FreshIds(Len(out.queue), Live(<<>>, rest))
               ELSE sessions[s].fn
        h == IF out.kind = "updated" THEN Store(heap, ids, out.queue) ELSE heap
    IN  /\ tasks' = ids
        /\ sessions' = rest
        /\ heap' = Collect(h, ids, rest)
        /\ logs' = logs \o <<Entry("AI REASONING", out.reply, 0)>>
        /\ isProcessingVoice' = FALSE

\* InterpreterReturnWith that writes the reply line only when the model
\* answered: a failed call leaves no line.
InterpreterReturnQuietFailure(s, out) ==
    /\ mounted
    /\ sessions[s].call
    /\ IF out.kind = "failed"
       THEN /\ tasks' = sessions[s].fn
            /\ sessions' = [sessions EXCEPT ![s].call = FALSE, ![s].fn = <<>>,
                                            ![s].given = <<>>]
            /\ heap' = Collect(heap, tasks', sessions')
            /\ logs' = logs
            /\ isProcessingVoice' = FALSE
       ELSE ApplyCommandResult(s, out)
    /\ UNCHANGED <<status, activeTaskIndex, isListening, planCalls>>
    /\ Commit

\* recognition.onresult of session s resumed with the outcome `out`.
InterpreterReturnWith(s, out) ==
    /\ mounted
    /\ sessions[s].call
    /\ ApplyCommandResult(s, out)
    /\ UNCHANGED <<status, activeTaskIndex, isListening, planCalls>>
    /\ Commit

InterpreterReturn(s) ==
    \E out \in InterpreterOutcomes : InterpreterReturnWith(s, out)

\* ---------------------------------------------------------- early warning
\* handleScan: setLoading(true), then geolocation and analyzeLocationRisks.
\* disabled={loading}
HandleScan ==
    /\ ~loading
    /\ loading' = TRUE
    /\ UNCHANGED <<riskData, contactInfo, alertConfig, monitoring, lastAlert,
                   actionLinks, alerts>>

\* The scan ends: setRiskData(data) and setLoading(false), or the error
\* branches, which leave riskData alone.
ScanResolved ==
    /\ loading
    /\ loading' = FALSE
    /\ \/ \E data \in RiskProfile : riskData' = data
       \/ riskData' = riskData
    /\ UNCHANGED <<contactInfo, alertConfig, monitoring, lastAlert,
                   actionLinks, alerts>>

\* onChange of the phone and e-mail inputs.
SetContactInfo ==
    /\ \E ph \in Phones, em \in Emails :
          contactInfo' = [phone |-> ph, email |-> em]
    /\ UNCHANGED <<loading, riskData, alertConfig, monitoring, lastAlert,
                   actionLinks, alerts>>

\* toggleDisasterType and the threshold slider.
SetAlertConfig ==
    /\ \/ \E t \in DisasterType :
             alertConfig' =
                [alertConfig EXCEPT !.types =
                    IF t \in @ THEN @ \ {t} ELSE @ \cup {t}]
       \/ \E v \in Thresholds : alertConfig' = [alertConfig EXCEPT !.threshold = v]
    /\ UNCHANGED <<loading, riskData, contactInfo, monitoring, lastAlert,
                   actionLinks, alerts>>

\* handleMonitorToggle.  The callback given to setTimeout closes over the
\* riskData and contactInfo of this render; nothing keeps its timer id.
\* At most MaxAlerts callbacks are explored pending at once.
HandleMonitorToggle ==
    /\ IF contactInfo.phone = "" /\ contactInfo.email = ""
       THEN UNCHANGED <<monitoring, lastAlert, actionLinks, alerts>>
       ELSE IF ~monitoring /\ riskData # Null
            THEN /\ monitoring' = TRUE
                 /\ alerts' =
                      IF riskData.dominantThreat \in alertConfig.types
                            /\ riskData.riskScore >= alertConfig.threshold
                      THEN alerts \cup {[stage |-> "timer", risk |-> riskData,
                                         contact |-> contactInfo]}
                      ELSE alerts
                 /\ Cardinality(alerts') <= MaxAlerts
                 /\ UNCHANGED <<lastAlert, actionLinks>>
            ELSE /\ monitoring' = FALSE
                 /\ lastAlert' = Null
                 /\ actionLinks' = Null
                 /\ UNCHANGED alerts
    /\ UNCHANGED <<loading, riskData, contactInfo, alertConfig>>

\* The 3 s timer of a scheduled alert fires: generateAlertMessage is called.
AlertTimerElapsed ==
    \E a \in alerts :
        /\ a.stage = "timer"
        /\ alerts' = (alerts \ {a}) \cup {[a EXCEPT !.stage = "message"]}
        /\ UNCHANGED <<loading, riskData, contactInfo, alertConfig, monitoring,
                       lastAlert, actionLinks>>

\* generateAlertMessage resolves to the model's text, to the default text
\* when the response is empty, or to the text of its catch branch.
AlertTexts == {"model text", "default text", "catch text"}

\* The callback after the await: setLastAlert(msg) and setActionLinks(...)
\* with the links built from msg and the contact of the closure.
AlertMessageReady ==
    \E a \in alerts :
        /\ a.stage = "message"
        /\ \E msg \in AlertTexts :
              /\ lastAlert' = [text |-> msg]
              /\ actionLinks' = [sms |-> <<a.contact.phone, msg>>,
                                 email |-> <<a.contact.email, msg,
                                             a.risk.dominantThreat>>]
        /\ alerts' = alerts \ {a}
        /\ UNCHANGED <<loading, riskData, contactInfo, alertConfig, monitoring>>

\* ------------------------------------------------------------ specification
\* Behaviours are explored up to a bounded log.
LogRoom(n) == Len(logs') <= n

\* Sessions that are not over yet.
LiveSessions(ss) == {s \in Sessions : ss[s].rec # "off" \/ ss[s].call}

\* The operator lets one command finish before the next click.
OneAtATime == Cardinality(LiveSessions(sessions')) <= 1

Next ==
    \/ GeneratePlan /\ UNCHANGED warningVars /\ LogRoom(MaxLog)
    \/ PlanReady /\ UNCHANGED warningVars /\ LogRoom(MaxLog)
    \/ ToggleExecution /\ UNCHANGED warningVars /\ LogRoom(MaxLog)
    \/ TaskTimerElapsed /\ UNCHANGED warningVars /\ LogRoom(MaxLog)
    \/ Approve /\ UNCHANGED warningVars /\ LogRoom(MaxLog)
    \/ PauseForReview /\ UNCHANGED warningVars /\ LogRoom(MaxLog)
    \/ HandleVoiceCommand /\ OneAtATime /\ UNCHANGED warningVars /\ LogRoom(MaxLog)
    \/ (\E s \in Sessions : OnStart(s)) /\ OneAtATime /\ UNCHANGED warningVars /\ LogRoom(MaxLog)
    \/ (\E s \in Sessions : OnError(s)) /\ OneAtATime /\ UNCHANGED warningVars /\ LogRoom(MaxLog)
    \/ (\E s \in Sessions : OnResult(s)) /\ OneAtATime /\ UNCHANGED warningVars /\ LogRoom(MaxLog)
    \/ (\E s \in Sessions : OnEnd(s)) /\ OneAtATime /\ UNCHANGED warningVars /\ LogRoom(MaxLog)
    \/ (\E s \in Sessions : InterpreterReturn(s)) /\ OneAtATime /\ UNCHANGED warningVars /\ LogRoom(MaxLog)

Spec == Init /\ [][Next]_vars

\* Clicks on the voice button may come while an earlier session is alive.
NextOverlap ==
    \/ GeneratePlan /\ UNCHANGED warningVars /\ LogRoom(MaxLog - 1)
    \/ PlanReady /\ UNCHANGED warningVars /\ LogRoom(MaxLog - 1)
    \/ ToggleExecution /\ UNCHANGED warningVars /\ LogRoom(MaxLog - 1)
    \/ TaskTimerElapsed /\ UNCHANGED warningVars /\ LogRoom(MaxLog - 1)
    \/ Approve /\ UNCHANGED warningVars /\ LogRoom(MaxLog - 1)
    \/ PauseForReview /\ UNCHANGED warningVars /\ LogRoom(MaxLog - 1)
    \/ HandleVoiceCommand /\ UNCHANGED warningVars /\ LogRoom(MaxLog - 1)
    \/ (\E s \in Sessions : OnStart(s)) /\ UNCHANGED warningVars /\ LogRoom(MaxLog - 1)
    \/ (\E s \in Sessions : OnError(s)) /\ UNCHANGED warningVars /\ LogRoom(MaxLog - 1)
    \/ (\E s \in Sessions : OnResult(s)) /\ UNCHANGED warningVars /\ LogRoom(MaxLog - 1)
    \/ (\E s \in Sessions : OnEnd(s)) /\ UNCHANGED warningVars /\ LogRoom(MaxLog - 1)
    \/ (\E s \in Sessions : InterpreterReturn(s)) /\ UNCHANGED warningVars /\ LogRoom(MaxLog - 1)

SpecOverlap == Init /\ [][NextOverlap]_vars

\* The orchestrator alone: no voice command is ever submitted.
NextNoCommand ==
    \/ GeneratePlan /\ UNCHANGED warningVars /\ LogRoom(MaxLog + DefaultPlanLen * 3)
    \/ PlanReady /\ UNCHANGED warningVars /\ LogRoom(MaxLog + DefaultPlanLen * 3)
    \/ ToggleExecution /\ UNCHANGED warningVars /\ LogRoom(MaxLog + DefaultPlanLen * 3)
    \/ TaskTimerElapsed /\ UNCHANGED warningVars /\ LogRoom(MaxLog + DefaultPlanLen * 3)
    \/ Approve /\ UNCHANGED warningVars /\ LogRoom(MaxLog + DefaultPlanLen * 3)
    \/ PauseForReview /\ UNCHANGED warningVars /\ LogRoom(MaxLog + DefaultPlanLen * 3)

SpecNoCommand == Init /\ [][NextNoCommand]_vars

\* One voice command in the whole behaviour, given after the operation has
\* started, no pause and no review: the runs in which a command result
\* arrives late in the operation.
NoCommandYet ==
    /\ activeTaskIndex >= 0
    /\ \A i \in 1..Len(logs) : logs[i].msg # "Listening for voice command..."

NoPause == status' # "PAUSED"

NextOneCommand ==
    \/ GeneratePlan /\ UNCHANGED warningVars /\ LogRoom(MaxLog + DefaultPlanLen * 2)
    \/ PlanReady /\ UNCHANGED warningVars /\ LogRoom(MaxLog + DefaultPlanLen * 2)
    \/ ToggleExecution /\ NoPause /\ UNCHANGED warningVars /\ LogRoom(MaxLog + DefaultPlanLen * 2)
    \/ TaskTimerElapsed /\ UNCHANGED warningVars /\ LogRoom(MaxLog + DefaultPlanLen * 2)
    \/ Approve /\ UNCHANGED warningVars /\ LogRoom(MaxLog + DefaultPlanLen * 2)
    \/ HandleVoiceCommand /\ NoCommandYet /\ OneAtATime
          /\ UNCHANGED warningVars /\ LogRoom(MaxLog + DefaultPlanLen * 2)
    \/ (\E s \in Sessions : OnStart(s)) /\ UNCHANGED warningVars /\ LogRoom(MaxLog + DefaultPlanLen * 2)
    \/ (\E s \in Sessions : OnResult(s)) /\ UNCHANGED warningVars /\ LogRoom(MaxLog + DefaultPlanLen * 2)
    \/ (\E s \in Sessions : OnEnd(s)) /\ UNCHANGED warningVars /\ LogRoom(MaxLog + DefaultPlanLen * 2)
    \/ (\E s \in Sessions : InterpreterReturn(s))
          /\ UNCHANGED warningVars /\ LogRoom(MaxLog + DefaultPlanLen * 2)

SpecOneCommand == Init /\ [][NextOneCommand]_vars

\* The browser runs every timer that is due.
SpecTimerFair ==
    Init /\ [][Next]_vars
         /\ WF_vars(TaskTimerElapsed /\ UNCHANGED warningVars)

\* The early-warning view on screen: RecoveryOps is not mounted.
NextMonitor ==
    \/ HandleScan /\ UNCHANGED opsVars
    \/ ScanResolved /\ UNCHANGED opsVars
    \/ SetContactInfo /\ UNCHANGED opsVars
    \/ SetAlertConfig /\ UNCHANGED opsVars
    \/ HandleMonitorToggle /\ UNCHANGED opsVars
    \/ AlertTimerElapsed /\ UNCHANGED opsVars
    \/ AlertMessageReady /\ UNCHANGED opsVars

SpecMonitor == Init /\ [][NextMonitor]_vars

\* The shape of the state.
TypeOK ==
    /\ tasks \in Seq(ObjIds)
    /\ \A i \in 1..Len(tasks) : Queue[i] \in RecoveryTask
    /\ status \in AgentStatus
    /\ activeTaskIndex \in -1..MaxLen
    /\ isListening \in BOOLEAN /\ isProcessingVoice \in BOOLEAN
    /\ planCalls \in 0..1
    /\ mounted \in BOOLEAN
    /\ \A t \in timers : t.idx \in -1..MaxLen /\ t.arr \in Seq(ObjIds)
    /\ loading \in BOOLEAN /\ monitoring \in BOOLEAN
    /\ riskData \in RiskProfile \cup {Null}
    /\ contactInfo \in [phone : Phones, email : Emails]
    /\ alertConfig \in [threshold : Thresholds, types : SUBSET DisasterType]
    /\ lastAlert = Null \/ lastAlert.text \in AlertTexts
    /\ Cardinality(alerts) <= MaxAlerts
    /\ \A s \in Sessions :
          /\ sessions[s].rec \in {"off", "starting", "listening", "ending"}
          /\ sessions[s].call \in BOOLEAN
          /\ \A i \in 1..Len(sessions[s].fn) :
                heap[sessions[s].fn[i]] \in RecoveryTask

\* ------------------------------------------------------------------- claims
InProgress == {i \in 1..Len(tasks) : Queue[i].status = "in-progress"}

AllCompleted == \A i \in 1..Len(tasks) : Queue[i].status = "completed"

LastLine == logs[Len(logs)]

\* Log position of the last "Plan generated" line (0 if there is none).
LastPlanLine ==
    LET at == {i \in 1..Len(logs) : logs[i].msg = "Plan generated"}
    IN  IF at = {} THEN 0 ELSE CHOOSE i \in at : \A j \in at : j <= i

\* approve() steps taken on the current plan.
ApprovalsSincePlan ==
    Cardinality({i \in 1..Len(logs) :
                    i > LastPlanLine /\ logs[i].msg = "confirmed by Commander."})

\* A step of each kind, told by what it does to the state cells.
ApproveStep ==
    /\ Len(logs') > Len(logs)
    /\ logs'[Len(logs) + 1].msg = "confirmed by Commander."

MergeStep == \E s \in Sessions : sessions[s].call /\ ~sessions'[s].call

StartStep == status = "IDLE" /\ status' = "EXECUTING"

PauseStep == status = "EXECUTING" /\ status' = "PAUSED"

ResumeStep == status = "PAUSED" /\ status' = "EXECUTING"

TimerStep == status = "EXECUTING" /\ status' = "AWAITING_APPROVAL"

\* Some position of the queue holds a completed task after the step that did
\* not before it.
CompletesATask ==
    \E i \in 1..Len(tasks') :
        /\ heap'[tasks'[i]].status = "completed"
        /\ (i > Len(tasks) \/ Queue[i].status # "completed")

\* C1: without commands, start() and then one (timer, approve()) round per
\* task end in COMPLETED with every task completed: the machine is COMPLETED
\* exactly when as many approvals as the plan has tasks were given, and until
\* then the k-th approval has moved the active index to k.
C1_StartThenApprovals ==
    /\ status = "COMPLETED" =>
          /\ AllCompleted
          /\ Len(tasks) > 0
          /\ ApprovalsSincePlan = Len(tasks)
    /\ status \in {"EXECUTING", "PAUSED", "AWAITING_APPROVAL"} =>
          /\ ApprovalsSincePlan = activeTaskIndex
          /\ activeTaskIndex < Len(tasks)

C1_Witness ==
    /\ status = "COMPLETED"
    /\ Len(tasks) = DefaultPlanLen
    /\ AllCompleted
    /\ ApprovalsSincePlan = DefaultPlanLen

\* C2: approve() in a state other than AWAITING_APPROVAL changes neither the
\* queue, nor activeIndex, nor the operation state.
C2_ApproveOutsideGate ==
    [][(status # "AWAITING_APPROVAL" /\ Approve)
          => (Deref(heap', tasks') = Queue
              /\ activeTaskIndex' = activeTaskIndex
              /\ status' = status
              /\ ~ApproveStep)]_vars

C2_Witness ==
    /\ status \in {"EXECUTING", "PAUSED"}
    /\ activeTaskIndex >= 0
    /\ activeTaskIndex < Len(tasks)
    /\ Queue[activeTaskIndex + 1].status = "in-progress"

\* C3: at most one task of the queue is in-progress, in every reachable
\* state, command merges included.
C3_AtMostOneInProgress == Cardinality(InProgress) <= 1

\* C4: activeIndex is -1 or an index of the current queue, in every
\* reachable state, command merges included.
C4_ActiveIndexInRange ==
    activeTaskIndex = -1
        \/ (0 <= activeTaskIndex /\ activeTaskIndex < Len(tasks))

\* C5: in EXECUTING and AWAITING_APPROVAL with activeIndex >= 0, the task at
\* activeIndex is in-progress, command merges included.
C5_ActiveTaskInProgress ==
    (status \in {"EXECUTING", "AWAITING_APPROVAL"} /\ activeTaskIndex >= 0)
        => /\ activeTaskIndex < Len(tasks)
           /\ Queue[activeTaskIndex + 1].status = "in-progress"

\* C6: while a command is outstanding (its session listens, or its
\* interpreter call is in flight) the voice button takes no second request,
\* and at most one interpreter call is in flight at any time.
C6_OneCommandAtATime ==
    /\ \A s \in Sessions :
          (sessions[s].rec = "listening" \/ sessions[s].call) => ~VoiceEnabled
    /\ Cardinality({s \in Sessions : sessions[s].call}) <= 1

\* C7: handling an interpreter failure leaves the queue as it was just
\* before, leaves the operation state and activeIndex alone and appends the
\* failure line to the log.
C7_FailureKeepsQueue ==
    [][(MergeStep /\ Len(logs') > Len(logs)
            /\ logs'[Len(logs') ].msg = "Signal interference. Command not processed.")
          => (Deref(heap', tasks') = Queue
              /\ status' = status
              /\ activeTaskIndex' = activeTaskIndex
              /\ logs' = Append(logs, Entry("AI REASONING",
                            "Signal interference. Command not processed.", 0)))]_vars

\* C8 as claimed: activeIndex increases only in an approve() step and then
\* by exactly 1; only approve() and a command merge complete a task; the
\* timer step neither completes a task nor starts the next one.
C8_IndexRisesOnlyInApprove ==
    [][/\ activeTaskIndex' > activeTaskIndex
            => (ApproveStep /\ activeTaskIndex' = activeTaskIndex + 1)
       /\ CompletesATask => (ApproveStep \/ MergeStep)
       /\ TimerStep => /\ Deref(heap', tasks') = Queue
                       /\ activeTaskIndex' = activeTaskIndex]_vars

\* C8 as amended: activeIndex increases only in an approve() step or in the
\* start() that moves it from -1 to 0, each time by exactly 1; only
\* approve() and a command merge complete a task; the timer step leaves the
\* queue and activeIndex alone.
C8_AdvanceOnlyThroughGate ==
    [][/\ activeTaskIndex' > activeTaskIndex
            => /\ activeTaskIndex' = activeTaskIndex + 1
               /\ \/ ApproveStep /\ status = "AWAITING_APPROVAL"
                  \/ StartStep /\ activeTaskIndex = -1
       /\ CompletesATask => (ApproveStep \/ MergeStep)
       /\ TimerStep => /\ Deref(heap', tasks') = Queue
                       /\ activeTaskIndex' = activeTaskIndex]_vars

C8_Witness ==
    /\ status = "AWAITING_APPROVAL"
    /\ activeTaskIndex = 1
    /\ Queue[1].status = "completed"
    /\ Queue[2].status = "in-progress"
    /\ LastLine.msg = "pending Commander approval."

\* C9: pause() in EXECUTING and the resume() that follows leave activeIndex
\* and every task as they were; only the operation state and the log change.
C9_PauseResumeFrame ==
    [][(PauseStep \/ ResumeStep)
          => /\ Deref(heap', tasks') = Queue
             /\ tasks' = tasks
             /\ activeTaskIndex' = activeTaskIndex
             /\ Len(logs') = Len(logs) + 1
             /\ UNCHANGED <<isListening, isProcessingVoice, sessions, planCalls>>]_vars

C9_Witness ==
    /\ status = "EXECUTING"
    /\ Len(logs) >= 2
    /\ logs[Len(logs) - 1].msg = "Operation Paused by Commander."
    /\ LastLine.msg = "Operation Resumed."
    /\ activeTaskIndex >= 0

\* C10: start() on an empty queue leaves the state IDLE, activeIndex -1 and
\* the queue empty.
C10_StartOnEmptyQueue ==
    [][(status = "IDLE" /\ Len(tasks) = 0 /\ ToggleExecution)
          => (status' = "IDLE"
              /\ activeTaskIndex' = activeTaskIndex
              /\ activeTaskIndex = -1
              /\ tasks' = <<>>
              /\ logs' = logs)]_vars

C10_Witness ==
    /\ status = "IDLE"
    /\ Len(tasks) = 0
    /\ activeTaskIndex = -1
    /\ Len(logs) > 0
    /\ LastLine = Entry("AI", "Plan generated", 0)

\* A failed planner call is handed to handleGeneratePlan in this step.
PlannerFailureStep ==
    \E out \in PlannerOutcomes : out.kind = "failed" /\ PlanReadyWith(out)

\* A plan is installed in this step.
PlanStep == planCalls' < planCalls

\* Log position of the first line of the last generatePlan call (0 if none).
LastCallLine ==
    LET at == {i \in 1..Len(logs) : logs[i].msg = "Analyzing impact"}
    IN  IF at = {} THEN 0 ELSE CHOOSE i \in at : \A j \in at : j <= i

\* C11: when the planner fails during generatePlan the machine leaves
\* PLANNING with the default queue of exactly 3 tasks, all pending,
\* activeIndex -1 and state IDLE.
C11_PlannerFailureDefaults ==
    [][PlannerFailureStep
          => /\ status = "PLANNING"
             /\ status' = "IDLE"
             /\ activeTaskIndex' = -1
             /\ Len(tasks') = 3
             /\ \A i \in 1..Len(tasks') : heap'[tasks'[i]].status = "pending"
             /\ \A i, j \in 1..Len(tasks') : i # j => tasks'[i] # tasks'[j]]_vars

C11_Witness ==
    /\ status = "IDLE"
    /\ activeTaskIndex = -1
    /\ Len(tasks) = 3
    /\ \A i \in 1..Len(tasks) : Queue[i].status = "pending"
    /\ LastLine = Entry("AI", "Plan generated", 3)

\* C12: a generatePlan call in which the planner fails records exactly one
\* log entry of category SYSTEM among the lines of that call.
C12_FailureLogsOneSystemEntry ==
    [][PlannerFailureStep
          => Cardinality({i \in LastCallLine..Len(logs') :
                             i >= 1 /\ logs'[i].cat = "SYSTEM"}) = 1]_vars

\* C13: no step other than a command merge or the installation of a new plan
\* changes a completed task of the queue to pending or in-progress.
C13_CompletedStaysCompleted ==
    [][(~MergeStep /\ ~PlanStep)
          => \A i \in 1..Len(tasks) :
                Queue[i].status = "completed"
                   => /\ i <= Len(tasks')
                      /\ heap'[tasks'[i]].status = "completed"]_vars

C15_EveryCommandConfirmed ==
    [][/\ MergeStep
            => /\ Len(logs') = Len(logs) + 1
               /\ SubSeq(logs', 1, Len(logs)) = logs
               /\ logs'[Len(logs')].cat = "AI REASONING"
       /\ (\E i \in (Len(logs) + 1)..Len(logs') : logs'[i].cat = "AI REASONING")
            => MergeStep]_vars

C15_Witness ==
    /\ ~isProcessingVoice
    /\ Len(logs) > 0
    /\ LastLine = Entry("AI REASONING",
                        "Signal interference. Command not processed.", 0)
    /\ \E i \in 1..Len(logs) : logs[i].msg = "Command acknowledged."

\* C16: the log is append-only: across every step the log before the step
\* is a prefix of the log after it.
C16_LogAppendOnly ==
    [][/\ Len(logs') >= Len(logs)
       /\ SubSeq(logs', 1, Len(logs)) = logs]_vars

C16_Witness ==
    /\ Len(logs) = MaxLog
    /\ \E i \in 1..Len(logs) : logs[i].msg = "Plan generated"
    /\ \E i \in 1..Len(logs) : logs[i].cat = "AI REASONING"
    /\ \E i \in 1..Len(logs) : logs[i].msg = "Operation Commenced."

\* C17: when the plan is ready in PLANNING the queue is replaced as a whole
\* by the planner's tasks, every task pending, activeIndex becomes -1 and the
\* state IDLE, whatever the previous queue and index were.
C17_PlanReplacesQueue ==
    [][PlanStep
          => /\ status = "PLANNING"
             /\ status' = "IDLE"
             /\ activeTaskIndex' = -1
             /\ Deref(heap', tasks') \in PlannerResults
             /\ \A i \in 1..Len(tasks') : heap'[tasks'[i]].status = "pending"
             /\ \A i, j \in 1..Len(tasks') : i # j => tasks'[i] # tasks'[j]]_vars

C17_Witness ==
    /\ status = "IDLE"
    /\ activeTaskIndex = -1
    /\ Len(tasks) > 0
    /\ \A i \in 1..Len(tasks) : Queue[i].status = "pending"
    /\ LastLine.msg = "Plan generated"
    /\ \E i \in 1..Len(logs) :
          logs[i].msg = "All recovery operations completed successfully."

\* C18: approve() in AWAITING_APPROVAL sets the active task to completed;
\* if activeIndex + 1 < length it sets the next task in-progress, increments
\* activeIndex and goes to EXECUTING; otherwise activeIndex stays at the last
\* index, no task is in-progress and the state is COMPLETED.
C18_ApproveAdvancesOrCompletes ==
    [][(status = "AWAITING_APPROVAL" /\ ApproveStep)
          => /\ tasks' = tasks
             /\ heap'[tasks[activeTaskIndex + 1]].status = "completed"
             /\ IF activeTaskIndex + 1 < Len(tasks)
                THEN /\ heap'[tasks[activeTaskIndex + 2]].status = "in-progress"
                     /\ activeTaskIndex' = activeTaskIndex + 1
                     /\ status' = "EXECUTING"
                ELSE /\ activeTaskIndex' = activeTaskIndex
                     /\ activeTaskIndex = Len(tasks) - 1
                     /\ \A i \in 1..Len(tasks') :
                           heap'[tasks'[i]].status # "in-progress"
                     /\ status' = "COMPLETED"]_vars

\* C19: COMPLETED is terminal until re-planning: a step taken in COMPLETED
\* either leaves the state COMPLETED or is generatePlan, which moves it to
\* PLANNING.
C19_CompletedIsTerminal ==
    [][status = "COMPLETED"
          => \/ status' = "COMPLETED"
             \/ status' = "PLANNING" /\ planCalls' = planCalls + 1]_vars

C19_Witness ==
    /\ status = "COMPLETED"
    /\ LastLine.cat = "AI REASONING"
    /\ ~AllCompleted

C21_CompletedMeansAllDone == status = "COMPLETED" => AllCompleted

\* Log position of the last interpreter call (0 if there is none).
LastCommandLine ==
    LET at == {i \in 1..Len(logs) : logs[i].msg = "Analyzing intent..."}
    IN  IF at = {} THEN 0 ELSE CHOOSE i \in at : \A j \in at : j <= i

\* approve() ran, and no plan was installed, since the last interpreter call.
ApprovedSinceCall ==
    /\ \E i \in 1..Len(logs) :
          i > LastCommandLine /\ logs[i].msg = "confirmed by Commander."
    /\ \A i \in 1..Len(logs) :
          i > LastCommandLine => logs[i].msg # "Plan generated"

StatusAt(q, i) == IF i \in 1..Len(q) THEN q[i].status ELSE "none"

\* The outcome in which the interpreter returns the queue it was given.
Echo(s) ==
    [kind |-> "updated", queue |-> sessions[s].given, reply |-> "model reply"]

\* C22: when approve() ran while a command was outstanding and the
\* interpreter returns the queue it was given, then after the merge the task
\* that approve() completed is still completed and the task at activeIndex is
\* still in-progress.
C22_MergeKeepsApproval ==
    [][\A s \in Sessions :
          (ApprovedSinceCall /\ InterpreterReturnWith(s, Echo(s)))
             => IF status = "COMPLETED"
                THEN StatusAt(Deref(heap', tasks'), activeTaskIndex + 1)
                        = "completed"
                ELSE /\ StatusAt(Deref(heap', tasks'), activeTaskIndex)
                           = "completed"
                     /\ StatusAt(Deref(heap', tasks'), activeTaskIndex + 1)
                           = "in-progress"]_vars

\* C23: the queue handed to the interpreter is the queue current when the
\* transcript is submitted, also when planReady replaced the queue after the
\* session started listening.
C23_InterpreterGetsCurrentQueue ==
    [][\A s \in Sessions :
          (sessions[s].rec = "listening" /\ sessions'[s].call)
             => sessions'[s].given = Queue]_vars

\* C24: with the timer fair, EXECUTING leads to AWAITING_APPROVAL unless the
\* operation is paused first, also after a command result replaced the queue.
C24_ExecutingReachesApproval ==
    (status = "EXECUTING") ~> (status \in {"AWAITING_APPROVAL", "PAUSED"})

C26_PauseIsLogged ==
    [][(status' = "PAUSED" /\ status # "PAUSED")
          => /\ Len(logs') = Len(logs) + 1
             /\ logs'[Len(logs')].msg = "Operation Paused by Commander."]_vars

\* Log lines of one kind about the task titled t, since the last plan.
StartedLines(t) ==
    {i \in 1..Len(logs) :
        i > LastPlanLine /\ logs[i].cat = "STARTED" /\ logs[i].arg = t}

PendingLines(t) ==
    {i \in 1..Len(logs) :
        i > LastPlanLine /\ logs[i].msg = "pending Commander approval."
                         /\ logs[i].arg = t}

CompletedLines(t) ==
    {i \in 1..Len(logs) :
        i > LastPlanLine /\ logs[i].cat = "COMPLETED" /\ logs[i].arg = t}

\* C27: without commands the log holds, for every completed task, its
\* STARTED line, then a pending-approval line, then its COMPLETED line, the
\* COMPLETED line of a task before the STARTED line of the next, and no task
\* has two STARTED or two COMPLETED lines since the last plan.
C27_LifecycleInOrder ==
    \A t \in 1..Len(tasks) :
        /\ Cardinality(StartedLines(t)) <= 1
        /\ Cardinality(CompletedLines(t)) <= 1
        /\ Queue[t].status = "completed"
              => \E b \in StartedLines(t), p \in PendingLines(t),
                    c \in CompletedLines(t) :
                    /\ b < p /\ p < c
                    /\ \A n \in StartedLines(t + 1) : c < n
                    /\ t > 1 => \E d \in CompletedLines(t - 1) : d < b

C27_Witness ==
    /\ status = "COMPLETED"
    /\ Len(tasks) >= 2
    /\ AllCompleted
    /\ \E i \in 1..Len(logs) :
          i > LastPlanLine /\ logs[i].msg = "Operation Resumed."
    /\ LastPlanLine > 1

\* C28: IDLE implies activeIndex = -1; EXECUTING, PAUSED, AWAITING_APPROVAL
\* and COMPLETED imply activeIndex >= 0; ANALYZING is never the state.
C28_StateIndexCoupled ==
    /\ status = "IDLE" => activeTaskIndex = -1
    /\ status \in {"EXECUTING", "PAUSED", "AWAITING_APPROVAL", "COMPLETED"}
          => activeTaskIndex >= 0
    /\ status # "ANALYZING"

C28_Witness ==
    /\ status = "PAUSED"
    /\ activeTaskIndex = 0
    /\ LastLine.msg = "pending Commander approval."
    /\ \E i \in 1..Len(logs) : logs[i].cat = "AI REASONING"

\* C29: in EXECUTING, PAUSED and AWAITING_APPROVAL one of timer, pause,
\* resume or approve can be taken and changes the operation state, also
\* after a command result shortened or emptied the queue.
C29_NeverStuck ==
    /\ status = "EXECUTING" => (timers # {} \/ ToggleEnabled)
    /\ status = "PAUSED" => ToggleEnabled
    /\ status = "AWAITING_APPROVAL"
          => (mounted /\ ApprovalModalShown /\ activeTaskIndex < Len(tasks))

\* C30: in the early-warning monitor, whenever monitoring is off the last
\* alert and the action links are empty: an alert scheduled when monitoring
\* was switched on has no effect once monitoring is switched off.
C30_NoAlertWhenOff ==
    ~monitoring => (lastAlert = Null /\ actionLinks = Null)

====
